---- MODULE Spec2Model ----
(***************************************************************************)
(* Model of the research portal page (src/src/App.svelte): the form, the   *)
(* asynchronous submitResearch handler with its two awaits, the response   *)
(* normaliser that runs inside it, clearSummaries and the tab buttons.     *)
(*                                                                         *)
(* Strings are sequences of tokens.  A token is one character that the     *)
(* code looks at (" ", "\n", "-", "*", "#", "A", "a", ...) or a word that  *)
(* it treats as an opaque run of non-blank characters ("Acme").            *)
(*                                                                         *)
(* JSON values are records tagged by t: "null", "undef", "num", "bool",    *)
(* "str", "arr", "obj".  A string value carries its text and the result    *)
(* JSON.parse gives on that text (parsed, with t = "fail" when JSON.parse  *)
(* throws), so that double encoding is a string whose parse is a string    *)
(* whose parse is an object.                                               *)
(***************************************************************************)
EXTENDS Integers, Sequences, FiniteSets, TLC

VARIABLES activeTab, formData, summaries, debrief, lastCompanyName,
          isLoading, error, uid, now, calls, requests, last

vars == <<activeTab, formData, summaries, debrief, lastCompanyName,
          isLoading, error, uid, now, calls, requests, last>>

(***************************************************************************)
(* Bounds of the model.                                                    *)
(***************************************************************************)
\* submit events that pass validation, per behaviour
MaxSubmits == 2
\* values of Date.now() seen during one behaviour: 0..MaxClock
MaxClock == 1

(***************************************************************************)
(* JSON values                                                             *)
(***************************************************************************)
Fail == [t |-> "fail"]
Null == [t |-> "null"]
Undef == [t |-> "undef"]
Num(n) == [t |-> "num", n |-> n]
Bool(b) == [t |-> "bool", b |-> b]
\* a string JSON.parse rejects
Str(txt) == [t |-> "str", txt |-> txt, parsed |-> Fail]
\* a string holding the JSON text of v
Enc(txt, v) == [t |-> "str", txt |-> txt, parsed |-> v]
Arr(items) == [t |-> "arr", items |-> items]
Obj(keys, vals) == [t |-> "obj", keys |-> keys, vals |-> vals]

\* typeof v === 'string'
IsString(v) == v.t = "str"
\* typeof v === 'object' (true of null and of arrays)
TypeofObject(v) == v.t \in {"null", "arr", "obj"}
\* Array.isArray(v)
IsArray(v) == v.t = "arr"
\* the value used as a condition
Truthy(v) ==
    CASE v.t = "null" -> FALSE
      [] v.t = "undef" -> FALSE
      [] v.t = "num" -> v.n # 0
      [] v.t = "bool" -> v.b
      [] v.t \in {"str", "text"} -> v.txt # <<>>
      [] OTHER -> TRUE
\* a property read on v raises a TypeError
NoProperties(v) == v.t \in {"null", "undef"}
\* 'k' in v raises a TypeError
NoInOperator(v) == v.t \notin {"arr", "obj"}
\* 'k' in rec
HasKey(rec, k) == rec.t = "obj" /\ \E i \in 1..Len(rec.keys) : rec.keys[i] = k
\* rec[k]
Get(rec, k) ==
    IF HasKey(rec, k)
    THEN rec.vals[CHOOSE i \in 1..Len(rec.keys) : rec.keys[i] = k]
    ELSE Undef

(***************************************************************************)
(* Strings                                                                 *)
(***************************************************************************)
IsWs(c) == c \in {" ", "\t", "\n"}

RECURSIVE TrimLeft(_)
TrimLeft(s) ==
    IF s = <<>> THEN s
    ELSE IF IsWs(Head(s)) THEN TrimLeft(Tail(s)) ELSE s

RECURSIVE TrimRight(_)
TrimRight(s) ==
    IF s = <<>> THEN s
    ELSE IF IsWs(s[Len(s)]) THEN TrimRight(SubSeq(s, 1, Len(s) - 1)) ELSE s

\* String.prototype.trim
Trim(s) == TrimRight(TrimLeft(s))

LowerChar(c) ==
    CASE c = "A" -> "a"
      [] c = "B" -> "b"
      [] c = "T" -> "t"
      [] OTHER -> c

\* String.prototype.toLowerCase
ToLowerCase(s) == [i \in 1..Len(s) |-> LowerChar(s[i])]

\* s.startsWith(p)
StartsWith(s, p) == Len(s) >= Len(p) /\ SubSeq(s, 1, Len(p)) = p

\* s.endsWith(p)
EndsWith(s, p) == Len(s) >= Len(p) /\ SubSeq(s, Len(s) - Len(p) + 1, Len(s)) = p

\* s.includes(w), for a phrase w that is one token
Includes(s, w) == \E i \in 1..Len(s) : s[i] = w

RECURSIVE Split(_, _)
\* s.split(sep), sep one token
Split(s, sep) ==
    IF \A i \in 1..Len(s) : s[i] # sep THEN <<s>>
    ELSE LET k == CHOOSE i \in 1..Len(s) : s[i] = sep /\ \A j \in 1..(i - 1) : s[j] # sep
         IN <<SubSeq(s, 1, k - 1)>> \o Split(SubSeq(s, k + 1, Len(s)), sep)

RECURSIVE Join(_, _)
\* parts.join(sep)
Join(parts, sep) ==
    IF parts = <<>> THEN <<>>
    ELSE IF Len(parts) = 1 THEN parts[1]
    ELSE parts[1] \o sep \o Join(Tail(parts), sep)

\* hasText, of a string value or an optional string
hasText(v) == v.t \in {"str", "text"} /\ Len(Trim(v.txt)) > 0

\* s.replace(/^\s*\*\*\s*|\s*\*\*\s*$/g, '')
stripBold(s) ==
    LET lead == TrimLeft(s)
        afterLead == IF StartsWith(lead, <<"*", "*">>)
                     THEN TrimLeft(SubSeq(lead, 3, Len(lead)))
                     ELSE s
        tail == TrimRight(afterLead)
    IN IF EndsWith(tail, <<"*", "*">>)
       THEN TrimRight(SubSeq(tail, 1, Len(tail) - 2))
       ELSE afterLead

\* s.replace(/^\s*-\s*/, '')
StripDash(s) ==
    LET lead == TrimLeft(s)
    IN IF StartsWith(lead, <<"-">>) THEN TrimLeft(Tail(lead)) ELSE s

\* the bullet with its ** left in place
normalizePointKeepsBold(s) == Trim(StripDash(s))

normalizePoint(s) == stripBold(Trim(StripDash(s)))

\* l.replace(/^\u2022\s*/, ''); the token "BULLET" is the character U+2022
StripDot(l) == IF StartsWith(l, <<"BULLET">>) THEN TrimLeft(Tail(l)) ELSE l

IsBulletLine(l) ==
    StartsWith(Trim(l), <<"-", " ">>) \/ StartsWith(Trim(l), <<"BULLET", " ">>)

\* lines.map((l) => normalizePoint(l.replace(/^\u2022\s*/, '')))
NormalizeLines(lines) == [i \in 1..Len(lines) |-> normalizePoint(StripDot(lines[i]))]

NonEmpty(txt) == Len(txt) > 0

\* fullBody is undefined or a string value
extractBulletsFromFullBody(fullBody) ==
    IF ~Truthy(fullBody) THEN <<>>
    ELSE SelectSeq(NormalizeLines(SelectSeq(Split(fullBody.txt, "\n"), IsBulletLine)),
                   NonEmpty)

\* lines.map((l) => l.trim())
TrimLines(lines) == [i \in 1..Len(lines) |-> Trim(lines[i])]

IsParagraphLine(l) ==
    /\ Len(l) > 0
    /\ ~StartsWith(l, <<"#">>)
    /\ ~StartsWith(l, <<"-", " ">>)
    /\ ~StartsWith(l, <<"BULLET", " ">>)

\* the paragraph text, or <<>> for undefined (a joined paragraph is never empty)
extractParagraphFromFullBody(fullBody) ==
    IF ~Truthy(fullBody) THEN <<>>
    ELSE Join(SelectSeq(TrimLines(Split(fullBody.txt, "\n")), IsParagraphLine), <<" ">>)

\* an optional string: t = "undef" or t = "text"
Text(txt) == [t |-> "text", txt |-> txt]

\* the paragraph of fullBody before executive_summary
deriveExecutiveSummaryBodyFirst(existing, bullets, fullBody) ==
    LET fromBody == extractParagraphFromFullBody(fullBody)
    IN IF fromBody # <<>> THEN Text(fromBody)
       ELSE IF hasText(existing) THEN Text(Trim(existing.txt))
       ELSE IF Len(bullets) > 0
            THEN Text(Join(SubSeq(bullets, 1, IF Len(bullets) < 3 THEN Len(bullets) ELSE 3), <<" ">>))
            ELSE Undef

deriveExecutiveSummary(existing, bullets, fullBody) ==
    LET fromBody == extractParagraphFromFullBody(fullBody)
    IN IF hasText(existing) THEN Text(Trim(existing.txt))
       ELSE IF fromBody # <<>> THEN Text(fromBody)
       ELSE IF Len(bullets) > 0
            THEN Text(Join(SubSeq(bullets, 1, IF Len(bullets) < 3 THEN Len(bullets) ELSE 3), <<" ">>))
            ELSE Undef

(***************************************************************************)
(* The response normaliser of submitResearch                               *)
(***************************************************************************)
\* maxDepth = 2
PeelDepth == 2

\* try { data = JSON.parse(rawText) } catch {}, data initially null
ParseBody(rawText) == IF rawText.parsed.t = "fail" THEN Null ELSE rawText.parsed

safeParse(v) ==
    IF ~IsString(v) THEN v
    ELSE IF v.parsed.t = "fail" THEN v ELSE v.parsed

RECURSIVE PeelLoop(_, _, _)
PeelLoop(cur, d, maxDepth) ==
    IF IsString(cur) /\ d < maxDepth
    THEN LET p == safeParse(cur)
         IN IF p = cur THEN cur ELSE PeelLoop(p, d + 1, maxDepth)
    ELSE cur

peel(v) == PeelLoop(v, 0, PeelDepth)

\* the id without ${__uid}
makeIdWithoutCounter(clock, counter, suffix) == <<ToString(clock), "-">> \o suffix

\* `${Date.now()}-${__uid}-${suffix}` with __uid already incremented
makeId(clock, counter, suffix) ==
    <<ToString(clock), "-", ToString(counter), "-">> \o suffix

\* v when it is a string, else ''
TextOf(v) == IF IsString(v) THEN v.txt ELSE <<>>

\* typeof obj.k === 'string' ? obj.k : ''
StringField(obj, k) == TextOf(Get(obj, k))

\* the category without the candidate's own one
CategoryOfKeyOnly(own, categoryHint) ==
    IF categoryHint # <<>> THEN categoryHint ELSE <<"Research">>

\* typeof obj.category === 'string' ? obj.category : (categoryHint || 'Research')
CategoryOf(own, categoryHint) ==
    IF IsString(own) THEN own.txt
    ELSE IF categoryHint # <<>> THEN categoryHint ELSE <<"Research">>

\* if (!hasText(summary)) return
CandidateIsValid(obj) == hasText(Text(StringField(obj, "summary")))

\* bucket.push({...}), with the fields read from the candidate
PushEntry(st, ctx, title, summary, url, category, postedDate) ==
    [st EXCEPT
       !.uid = st.uid + 1,
       !.bucket = Append(st.bucket,
         [id |-> makeId(ctx.now, st.uid + 1,
                        IF category # <<>> THEN category ELSE <<"item">>),
          companyName |-> ctx.payload.companyName,
          category |-> IF category # <<>> THEN category ELSE <<"Research">>,
          title |-> IF hasText(Text(title)) THEN title ELSE <<"Untitled">>,
          summary |-> summary,
          url |-> IF hasText(Text(url)) THEN url ELSE <<"#">>,
          postedDate |-> IF hasText(Text(postedDate)) THEN Text(postedDate) ELSE Undef])]

\* st = [bucket, uid, threw]; ctx = [payload, now]; categoryHint '' when not given
pushIfValid(st, obj, categoryHint, ctx) ==
    IF NoProperties(obj) THEN [st EXCEPT !.threw = TRUE]
    ELSE IF ~CandidateIsValid(obj) THEN st
    ELSE PushEntry(st, ctx, StringField(obj, "title"), StringField(obj, "summary"),
                   StringField(obj, "url"), CategoryOf(Get(obj, "category"), categoryHint),
                   StringField(obj, "postedDate"))

baseList(data) ==
    IF IsArray(data) THEN data.items
    ELSE IF Truthy(data) /\ TypeofObject(data) THEN <<data>> ELSE <<>>

\* first && typeof first === 'object' && !Array.isArray(first)
FirstIsRecord(first) == Truthy(first) /\ TypeofObject(first) /\ ~IsArray(first)

\* items.filter((s) => typeof s === 'string')
StringsOf(items) == SelectSeq(items, IsString)

\* strings.map((s) => normalizePoint(String(s)))
PointsOf(strings) == [i \in 1..Len(strings) |-> normalizePoint(strings[i].txt)]

\* typeof v === 'string' ? v : undefined, as an optional string
OptionalText(v) == IF IsString(v) THEN Text(v.txt) ELSE Undef

\* the bullets of the debrief: bulletPoints, else supporting_points, else fullBody
BulletsOf(bpA, bpB, fullBody) ==
    IF IsArray(bpA) THEN PointsOf(StringsOf(bpA.items))
    ELSE IF IsArray(bpB) THEN PointsOf(StringsOf(bpB.items))
    ELSE extractBulletsFromFullBody(fullBody)

\* debrief = {...}
MakeDebrief(title, exec_v2, fullBody, bullets, totals, bulletPointCount) ==
    [t |-> "debrief",
     title |-> IF IsString(title) THEN title.txt ELSE <<"Content Debrief">>,
     executiveSummary |-> deriveExecutiveSummary(exec_v2, bullets, fullBody),
     fullBody |-> fullBody,
     bulletPoints |-> bullets,
     totals |-> IF Truthy(totals) /\ TypeofObject(totals) THEN totals ELSE Undef,
     bulletPointCount |-> IF bulletPointCount.t = "num" THEN bulletPointCount ELSE Undef]

DebriefFrom(rec, fullBody) ==
    MakeDebrief(Get(rec, "title"), OptionalText(Get(rec, "executive_summary")), fullBody,
                BulletsOf(Get(rec, "bulletPoints"), Get(rec, "supporting_points"), fullBody),
                Get(rec, "totals"), Get(rec, "bulletPointCount"))

\* the object assigned to debrief from the first element rec
ExtractDebrief(rec) == DebriefFrom(rec, OptionalText(Get(rec, "fullBody")))

\* the guard without !item: null is an 'object'
ItemSkippedUnlessNull(item) == ~TypeofObject(item) \/ IsArray(item)

\* if (!item || typeof item !== 'object' || Array.isArray(item)) return
ItemSkipped(item) == ~Truthy(item) \/ ~TypeofObject(item) \/ IsArray(item)

hasDirectShape(rec) ==
    \/ HasKey(rec, "title") \/ HasKey(rec, "summary") \/ HasKey(rec, "url")
    \/ HasKey(rec, "category") \/ HasKey(rec, "postedDate")

\* obj && typeof obj === 'object' && !Array.isArray(obj)
ChildIsRecord(obj) == Truthy(obj) /\ TypeofObject(obj) /\ ~IsArray(obj)

\* v && typeof v === 'object', tested after Array.isArray(v) failed
ValueIsRecord(v) == Truthy(v) /\ TypeofObject(v)

\* categoryKey.toString() as text
KeyText(k) == IF k = "" THEN <<>> ELSE <<k>>

\* one child of a category's array, already peeled
PushChild(st, obj, category, ctx) ==
    IF ChildIsRecord(obj) THEN pushIfValid(st, obj, category, ctx) ELSE st

RECURSIVE PushChildren(_, _, _, _)
\* v.forEach((child) => ...)
PushChildren(st, children, category, ctx) ==
    IF children = <<>> \/ st.threw THEN st
    ELSE PushChildren(PushChild(st, peel(Head(children)), category, ctx),
                      Tail(children), category, ctx)

\* one [categoryKey, rawVal] pair, rawVal already peeled to v
PushValue(st, v, category, ctx) ==
    IF IsArray(v) THEN PushChildren(st, v.items, category, ctx)
    ELSE IF ValueIsRecord(v) THEN pushIfValid(st, v, category, ctx)
    ELSE st

RECURSIVE PushByKeys(_, _, _, _)
\* for (const [categoryKey, rawVal] of Object.entries(rec)), from the k-th key on
PushByKeys(st, rec, k, ctx) ==
    IF k > Len(rec.keys) \/ st.threw THEN st
    ELSE PushByKeys(PushValue(st, peel(rec.vals[k]), KeyText(rec.keys[k]), ctx),
                    rec, k + 1, ctx)

\* the body of remainingList.forEach for one item
PushItem(st, item, ctx) ==
    IF ItemSkipped(item) THEN st
    ELSE IF NoInOperator(item) THEN [st EXCEPT !.threw = TRUE]
    ELSE IF hasDirectShape(item) THEN pushIfValid(st, item, <<>>, ctx)
    ELSE PushByKeys(st, item, 1, ctx)

RECURSIVE PushItems(_, _, _)
\* remainingList.forEach((item) => ...)
PushItems(st, items, ctx) ==
    IF items = <<>> \/ st.threw THEN st
    ELSE PushItems(PushItem(st, Head(items), ctx), Tail(items), ctx)

\* the key without toLowerCase()
DedupKeyCaseSensitive(e) == Trim(e.url)

\* (e.url || '').trim().toLowerCase()
DedupKey(e) == ToLowerCase(Trim(e.url))

RECURSIVE Dedup(_, _)
\* newEntries.filter(...) with the Set seen
Dedup(entries, seen) ==
    IF entries = <<>> THEN <<>>
    ELSE IF DedupKey(Head(entries)) = <<>>
         THEN <<Head(entries)>> \o Dedup(Tail(entries), seen)
    ELSE IF DedupKey(Head(entries)) \in seen THEN Dedup(Tail(entries), seen)
    ELSE <<Head(entries)>> \o Dedup(Tail(entries), seen \cup {DedupKey(Head(entries))})

Placeholder(ctx, counter) ==
    [id |-> makeId(ctx.now, counter, <<"no-results">>),
     companyName |-> ctx.payload.companyName,
     category |-> <<"Research">>,
     title |-> <<"No articles found">>,
     summary |-> <<>>,
     url |-> <<"#">>,
     postedDate |-> Undef]

\* deduped.length === 0 && !debrief, debrief being the component's variable
NeedsPlaceholder(deduped, liveDebrief) == Len(deduped) = 0 /\ ~Truthy(liveDebrief)

\* the batch replaces the list: summaries = deduped, or = [placeholder]
PrependReplacing(st, deduped, liveDebrief, extracted, ctx, oldSummaries) ==
    [threw |-> st.threw,
     extracted |-> extracted,
     debrief |-> liveDebrief,
     newEntries |-> st.bucket,
     deduped |-> deduped,
     placeholder |-> ~st.threw /\ NeedsPlaceholder(deduped, liveDebrief),
     uid |-> IF ~st.threw /\ NeedsPlaceholder(deduped, liveDebrief)
             THEN st.uid + 1 ELSE st.uid,
     summaries |-> IF st.threw THEN oldSummaries
                   ELSE IF NeedsPlaceholder(deduped, liveDebrief)
                        THEN <<Placeholder(ctx, st.uid + 1)>>
                        ELSE deduped]

\* lines 253-265: st is the bucket state after the forEach, deduped its filter
Prepend(st, deduped, liveDebrief, extracted, ctx, oldSummaries) ==
    [threw |-> st.threw,
     extracted |-> extracted,
     debrief |-> liveDebrief,
     newEntries |-> st.bucket,
     deduped |-> deduped,
     placeholder |-> ~st.threw /\ NeedsPlaceholder(deduped, liveDebrief),
     uid |-> IF ~st.threw /\ NeedsPlaceholder(deduped, liveDebrief)
             THEN st.uid + 1 ELSE st.uid,
     summaries |-> IF st.threw THEN oldSummaries
                   ELSE IF NeedsPlaceholder(deduped, liveDebrief)
                        THEN <<Placeholder(ctx, st.uid + 1)>> \o oldSummaries
                        ELSE deduped \o oldSummaries]

\* the Set seen filled with the urls of the accumulated list
DedupAgainstList(st, liveDebrief, extracted, ctx, oldSummaries) ==
    Prepend(st,
            Dedup(st.bucket, {DedupKey(oldSummaries[k]) : k \in 1..Len(oldSummaries)}),
            liveDebrief, extracted, ctx, oldSummaries)

\* lines 244-265
DedupAndPrepend(st, liveDebrief, extracted, ctx, oldSummaries) ==
    Prepend(st, Dedup(st.bucket, {}), liveDebrief, extracted, ctx, oldSummaries)

\* lines 183-265: first is the peeled first element (undefined for an empty list)
NormalizeList(base, first, ctx, oldSummaries, oldDebrief, oldUid) ==
    IF Len(base) > 0 /\ FirstIsRecord(first)
    THEN IF NoProperties(first)
         THEN DedupAndPrepend([bucket |-> <<>>, uid |-> oldUid, threw |-> TRUE],
                              oldDebrief, FALSE, ctx, oldSummaries)
         ELSE DedupAndPrepend(
                PushItems([bucket |-> <<>>, uid |-> oldUid, threw |-> FALSE], Tail(base), ctx),
                ExtractDebrief(first), TRUE, ctx, oldSummaries)
    ELSE DedupAndPrepend(
           PushItems([bucket |-> <<>>, uid |-> oldUid, threw |-> FALSE], base, ctx),
           oldDebrief, FALSE, ctx, oldSummaries)

\* lines 177-265
NormalizeBase(base, ctx, oldSummaries, oldDebrief, oldUid) ==
    NormalizeList(base, IF Len(base) > 0 THEN peel(base[1]) ELSE Undef,
                  ctx, oldSummaries, oldDebrief, oldUid)

\* Lines 136-265 on the body rawText, from the component state
\* (oldSummaries, oldDebrief, oldUid).  threw: a TypeError left the block.
Normalize(rawText, ctx, oldSummaries, oldDebrief, oldUid) ==
    NormalizeBase(baseList(ParseBody(rawText)), ctx, oldSummaries, oldDebrief, oldUid)

(***************************************************************************)
(* Inputs: field values, responses, rejections and response bodies         *)
(***************************************************************************)
FieldValues == {<<>>, <<" ">>, <<"Acme">>}

Responses ==
    << [ok |-> TRUE, status |-> "200", statusText |-> <<"OK">>],
       [ok |-> FALSE, status |-> "500", statusText |-> <<"Internal Server Error">>],
       [ok |-> FALSE, status |-> "404", statusText |-> <<>>] >>

\* what fetch() or response.text() rejects with
Rejections ==
    << [isError |-> TRUE, message |-> <<"TypeError:", " ", "Failed to fetch">>],
       [isError |-> TRUE, message |-> <<"Load failed">>],
       [isError |-> FALSE, message |-> <<>>] >>

\* {title, summary, url}
Direct(title, summary, url) ==
    Obj(<<"title", "summary", "url">>, <<Str(title), Str(summary), Str(url)>>)

\* {title, summary}
NoUrl(title, summary) == Obj(<<"title", "summary">>, <<Str(title), Str(summary)>>)

ArticleA == Direct(<<"T1">>, <<"S1">>, <<"a">>)
ArticleA2 == Direct(<<"T2">>, <<"S2">>, <<" ", "A", " ">>)
ArticleB == Direct(<<"T3">>, <<"S3">>, <<"b">>)
ArticleBlankUrl == Direct(<<"T4">>, <<"S4">>, <<" ">>)
ArticleNoUrl == NoUrl(<<"T5">>, <<"S5">>)
ArticleNoSummary == Direct(<<"T6">>, <<" ">>, <<"c">>)

DebriefPoints ==
    Obj(<<"bulletPoints">>,
        <<Arr(<<Str(<<"-", " ", "*", "*", "Point", " ", "one", "*", "*">>),
                Str(<<"Point", " ", "two">>)>>)>>)

\* a first element that is a whole article as well
DebriefArticle ==
    Obj(<<"title", "summary", "url", "bulletPoints">>,
        <<Str(<<"T7">>), Str(<<"S7">>), Str(<<"d">>),
          Arr(<<Str(<<" ", "-", " ", "Point", " ", "three", " ">>),
                Str(<<"*", "*", "Point", " ", "four", "*", "*">>)>>)>>)

DebriefBody ==
    Obj(<<"fullBody", "bulletPoints">>,
        <<Str(<<"Intro", " ", "text.", "\n", "-", " ", "*", "*", "Risk", " ", "A", "*", "*",
                "\n", "-", " ", "Risk", " ", "B">>),
          Arr(<<>>)>>)

\* {executive_summary, fullBody, bulletPoints}: all three sources of a summary
DebriefExplicit ==
    Obj(<<"executive_summary", "fullBody", "bulletPoints">>,
        <<Str(<<" ", "Exec", " ", "sum", " ">>),
          Str(<<"Intro", " ", "text.", "\n", "-", " ", "Risk", " ", "A">>),
          Arr(<<Str(<<"P1">>)>>)>>)

\* a blank executive_summary and a fullBody with a heading, an empty line,
\* two paragraph lines and two bullet lines
DebriefParagraphs ==
    Obj(<<"executive_summary", "fullBody">>,
        <<Str(<<" ">>),
          Str(<<"#", " ", "Head", "\n", "\n", " ", "Intro", " ", "text.", " ", "\n",
                "More", " ", "text.", "\n", "-", " ", "Risk", " ", "A", "\n",
                "BULLET", " ", "Risk", " ", "B">>)>>)

\* a fullBody with a heading and four bullet lines
DebriefBulletsOnly ==
    Obj(<<"fullBody">>,
        <<Str(<<"#", " ", "Head", "\n", "-", " ", "B1", "\n", "-", " ", "B2", "\n",
                "-", " ", "B3", "\n", "-", " ", "B4">>)>>)

\* the candidates of a grouped object: an own category and a date; a blank
\* title, an empty own category and a blank date; no url, no category and a
\* date that is a number; a single object under the empty key
TaggedDated ==
    Obj(<<"summary", "url", "category", "postedDate">>,
        <<Str(<<"S8">>), Str(<<"e">>), Str(<<"Tech">>), Str(<<"2024-01-01">>)>>)
UntitledUntagged ==
    Obj(<<"title", "summary", "url", "category", "postedDate">>,
        <<Str(<<" ">>), Str(<<"S9">>), Str(<<"f">>), Str(<<>>), Str(<<" ">>)>>)
NumberDated ==
    Obj(<<"title", "summary", "postedDate">>, <<Str(<<"T10">>), Str(<<"S10">>), Num(7)>>)
UnderEmptyKey == Obj(<<"summary", "url">>, <<Str(<<"S11">>), Str(<<"g">>)>>)

\* {News: [TaggedDated, UntitledUntagged, NumberDated], "": UnderEmptyKey}
Grouped ==
    Obj(<<"News", "">>,
        <<Arr(<<TaggedDated, UntitledUntagged, NumberDated>>), UnderEmptyKey>>)

\* {summary, News: [ArticleA]}: a direct-shape key next to a category key
DirectWithGroup ==
    Obj(<<"summary", "News">>, <<Str(<<"S12">>), Arr(<<ArticleA>>)>>)

ArticlesText == Enc(<<"[{T1},{T3}]">>, Arr(<<ArticleA, ArticleB>>))

\* The response bodies of Spec, as raw text.
Bodies ==
    << Str(<<>>),
       Str(<<"not", " ", "json">>),
       Str(<<"upstream:", " ", "Failed to fetch">>),
       Enc(<<"[]">>, Arr(<<>>)),
       Enc(<<"{}">>, Obj(<<>>, <<>>)),
       Enc(<<"[{T1},{T3}]">>, Arr(<<ArticleA, ArticleB>>)),
       Enc(<<"[{points},{T1},{T2},{T3}]">>,
           Arr(<<DebriefPoints, ArticleA, ArticleA2, ArticleB>>)),
       Enc(<<"[null,{T1}]">>, Arr(<<Null, ArticleA>>)),
       Enc(<<"{News:str:[{T1}]}">>,
           Obj(<<"News">>, <<Enc(<<"[{T1}]">>, Arr(<<ArticleA>>))>>)) >>

\* the bodies sent with a non-2xx status
HttpErrorBodies == 1..3

\* The response shapes of SpecNorm beyond those of Bodies.
Shapes ==
    << Enc(<<"null">>, Null),
       Enc(<<"7">>, Num(7)),
       Enc(<<"true">>, Bool(TRUE)),
       Enc(<<"str:hi">>, Str(<<"hi">>)),
       Enc(<<"str:[{T1},{T3}]">>, ArticlesText),
       Enc(<<"[[{T1}]]">>, Arr(<<Arr(<<ArticleA>>)>>)),
       Enc(<<"[[],[[]]]">>, Arr(<<Arr(<<>>), Arr(<<Arr(<<>>)>>)>>)),
       Enc(<<"{foo:1,bar:null}">>, Obj(<<"foo", "bar">>, <<Num(1), Null>>)),
       Enc(<<"[null,{foo:null,bar:[null,7]},7,str:[{T1},{T3}]]">>,
           Arr(<<Null, Obj(<<"foo", "bar">>, <<Null, Arr(<<Null, Num(7)>>)>>), Num(7),
                 ArticlesText>>)),
       Enc(<<"[str:null,null]">>, Arr(<<Enc(<<"null">>, Null), Null>>)),
       Enc(<<"[{body},{T1}]">>, Arr(<<DebriefBody, ArticleA>>)),
       Enc(<<"[{points}]">>, Arr(<<DebriefPoints>>)),
       Enc(<<"[null,str:{T1},str:str:{News:[{T3}]}]">>,
           Arr(<<Null, Enc(<<"{T1}">>, ArticleA),
                 Enc(<<"str:{News:[{T3}]}">>,
                     Enc(<<"{News:[{T3}]}">>, Obj(<<"News">>, <<Arr(<<ArticleB>>)>>)))>>)),
       Enc(<<"[{explicit}]">>, Arr(<<DebriefExplicit>>)),
       Enc(<<"[{paragraphs}]">>, Arr(<<DebriefParagraphs>>)),
       Enc(<<"[{bullets}]">>, Arr(<<DebriefBulletsOnly>>)),
       Enc(<<"[null,{grouped}]">>, Arr(<<Null, Grouped>>)),
       Enc(<<"[null,{S12,News:[{T1}]}]">>, Arr(<<Null, DirectWithGroup>>)) >>

\* the objects a generated batch is made of
Candidates ==
    <<ArticleA, ArticleA2, ArticleB, ArticleBlankUrl, ArticleNoUrl, ArticleNoSummary>>

\* the first element of a generated batch: nothing, a debrief, null, a
\* debrief that is an article too
Firsts == <<DebriefPoints, Null, DebriefArticle>>

\* elements after the first in a generated batch
MaxItems == 2

\* [first, candidates...]: first = 0 for no first element, picks a tuple of
\* indices into Candidates
Batch(first, picks) ==
    LET items == (IF first = 0 THEN <<>> ELSE <<Firsts[first]>>)
                    \o [k \in 1..Len(picks) |-> Candidates[picks[k]]]
    IN Enc(<<"batch", ToString(first), ToString(picks)>>, Arr(items))

Picks == UNION {[1..n -> 1..Len(Candidates)] : n \in 0..MaxItems}

(***************************************************************************)
(* The component                                                           *)
(***************************************************************************)
EmptyForm == [companyName |-> <<>>, companyWebsite |-> <<>>]

\* the component's variables, as an earlier step left them
Snapshot ==
    [activeTab |-> activeTab, formData |-> formData, summaries |-> summaries,
     debrief |-> debrief, lastCompanyName |-> lastCompanyName,
     isLoading |-> isLoading, error |-> error, uid |-> uid, requests |-> requests]

NoNorm == [threw |-> FALSE]

\* last: the step taken last, its input, the state it started from, the body
\* that was read and, for a 2xx settlement, what the normaliser computed
Did(op, arg, norm) ==
    [op |-> op, arg |-> arg, body |-> Undef, payload |-> EmptyForm, pre |-> Snapshot,
     norm |-> norm]

\* last after a keystroke: nothing of the earlier state is kept
Typed ==
    [op |-> "type", arg |-> 0, body |-> Undef, payload |-> EmptyForm,
     pre |-> [isLoading |-> FALSE], norm |-> NoNorm]

Init ==
    /\ activeTab = "research"
    /\ formData = EmptyForm
    /\ summaries = <<>>
    /\ debrief = Null
    /\ lastCompanyName = <<>>
    /\ isLoading = FALSE
    /\ error = <<>>
    /\ uid = 0
    /\ now = 0
    /\ calls = <<>>
    /\ requests = 0
    /\ last = [op |-> "init", arg |-> 0, body |-> Undef, payload |-> EmptyForm,
               pre |-> [isLoading |-> FALSE], norm |-> NoNorm]

\* disabled={isLoading} on both inputs
InputsDisabled == isLoading

\* the form without disabled={isLoading}
SubmitBlockedByTabOnly == activeTab # "research"

\* the form is rendered on the research tab, and no submit event leaves a form
\* whose inputs and button are disabled (lines 348, 361, 369); the blank-field
\* half of the button's condition is repeated by the handler, which decides it
SubmitBlocked == activeTab # "research" \/ isLoading

\* bind:value on the companyName input
SetCompanyName(v) ==
    /\ activeTab = "research" /\ ~InputsDisabled
    /\ v # formData.companyName
    /\ formData' = [formData EXCEPT !.companyName = v]
    /\ last' = Typed
    /\ UNCHANGED <<activeTab, summaries, debrief, lastCompanyName, isLoading, error,
                   uid, now, calls, requests>>

\* bind:value on the companyWebsite input
SetCompanyWebsite(v) ==
    /\ activeTab = "research" /\ ~InputsDisabled
    /\ v # formData.companyWebsite
    /\ formData' = [formData EXCEPT !.companyWebsite = v]
    /\ last' = Typed
    /\ UNCHANGED <<activeTab, summaries, debrief, lastCompanyName, isLoading, error,
                   uid, now, calls, requests>>

\* the validation without trim(): a field of blanks passes
FormIsBlankUntrimmed == formData.companyName = <<>> \/ formData.companyWebsite = <<>>

\* !formData.companyName.trim() || !formData.companyWebsite.trim()
FormIsBlank == Trim(formData.companyName) = <<>> \/ Trim(formData.companyWebsite) = <<>>

\* submitResearch without error = ''
submitResearchKeepsError ==
    /\ ~SubmitBlocked
    /\ \/ /\ FormIsBlank
          /\ error' = <<"Company name and website are required">>
          /\ last' = Did("invalid", 0, NoNorm)
          /\ UNCHANGED <<activeTab, formData, summaries, debrief, lastCompanyName,
                         isLoading, uid, now, calls, requests>>
       \/ /\ ~FormIsBlank
          /\ requests < MaxSubmits
          /\ isLoading' = TRUE
          /\ lastCompanyName' = formData.companyName
          /\ calls' = Append(calls, [payload |-> formData, stage |-> "fetch", response |-> 0])
          /\ requests' = requests + 1
          /\ last' = Did("request", 0, NoNorm)
          /\ UNCHANGED <<activeTab, formData, summaries, debrief, uid, now, error>>

\* submitResearch up to its first await: the validation, then the request
submitResearch ==
    /\ ~SubmitBlocked
    /\ \/ /\ FormIsBlank
          /\ error' = <<"Company name and website are required">>
          /\ last' = Did("invalid", 0, NoNorm)
          /\ UNCHANGED <<activeTab, formData, summaries, debrief, lastCompanyName,
                         isLoading, uid, now, calls, requests>>
       \/ /\ ~FormIsBlank
          /\ requests < MaxSubmits
          /\ isLoading' = TRUE
          /\ error' = <<>>
          /\ lastCompanyName' = formData.companyName
          /\ calls' = Append(calls, [payload |-> formData, stage |-> "fetch", response |-> 0])
          /\ requests' = requests + 1
          /\ last' = Did("request", 0, NoNorm)
          /\ UNCHANGED <<activeTab, formData, summaries, debrief, uid, now>>

Remove(s, i) == SubSeq(s, 1, i - 1) \o SubSeq(s, i + 1, Len(s))

\* catch without the rewrite of 'Failed to fetch'
CatchMessageAsIs(err) ==
    IF err.isError THEN err.message ELSE <<"Failed to submit research request">>

\* catch (err) { ... }: the text assigned to error
CatchMessage(err) ==
    LET message == IF err.isError THEN err.message
                   ELSE <<"Failed to submit research request">>
    IN IF Includes(message, "Failed to fetch")
       THEN <<"Failed to fetch (likely CORS). See note below.">>
       ELSE message

\* catch without finally
CaughtWithoutFinally(i, err) ==
    /\ error' = CatchMessage(err)
    /\ isLoading' = isLoading
    /\ calls' = Remove(calls, i)

\* catch and finally, for the call at index i
Caught(i, err) ==
    /\ error' = CatchMessage(err)
    /\ isLoading' = FALSE
    /\ calls' = Remove(calls, i)

\* a rejected fetch that is issued again
FetchRejectsAndRetries(i, r) ==
    /\ i \in 1..Len(calls) /\ calls[i].stage = "fetch"
    /\ requests < MaxSubmits
    /\ error' = CatchMessage(Rejections[r])
    /\ requests' = requests + 1
    /\ last' = Did("fetchRejected", r, NoNorm)
    /\ UNCHANGED <<activeTab, formData, summaries, debrief, lastCompanyName, isLoading,
                   uid, now, calls>>

\* await fetch(...) rejects
FetchRejects(i, r) ==
    /\ i \in 1..Len(calls) /\ calls[i].stage = "fetch"
    /\ Caught(i, Rejections[r])
    /\ last' = Did("fetchRejected", r, NoNorm)
    /\ UNCHANGED <<activeTab, formData, summaries, debrief, lastCompanyName, uid, now,
                   requests>>

\* await fetch(...) resolves; response.text() is called
FetchResolves(i, m) ==
    /\ i \in 1..Len(calls) /\ calls[i].stage = "fetch"
    /\ calls' = [calls EXCEPT ![i].stage = "text", ![i].response = m]
    /\ last' = Did("response", m, NoNorm)
    /\ UNCHANGED <<activeTab, formData, summaries, debrief, lastCompanyName, isLoading,
                   error, uid, now, requests>>

\* await response.text() rejects
TextRejects(i, r) ==
    /\ i \in 1..Len(calls) /\ calls[i].stage = "text"
    /\ Caught(i, Rejections[r])
    /\ last' = Did("textRejected", r, NoNorm)
    /\ UNCHANGED <<activeTab, formData, summaries, debrief, lastCompanyName, uid, now,
                   requests>>

\* `HTTP ${response.status} ${response.statusText}${rawText ? ` - ${rawText}` : ''}`
HttpErrorMessage(response, rawText) ==
    <<"HTTP", " ", response.status, " ">> \o response.statusText
       \o (IF Truthy(rawText) THEN <<" ", "-", " ">> \o rawText.txt ELSE <<>>)

\* a non-2xx response that resets the form as a 2xx response does
HttpFailsAndResetsForm(i, b) ==
    /\ i \in 1..Len(calls) /\ calls[i].stage = "text"
    /\ ~Responses[calls[i].response].ok
    /\ Caught(i, [isError |-> TRUE,
                  message |-> HttpErrorMessage(Responses[calls[i].response], Bodies[b])])
    /\ formData' = EmptyForm
    /\ last' = [Did("httpError", calls[i].response, NoNorm) EXCEPT !.body = Bodies[b]]
    /\ UNCHANGED <<activeTab, summaries, debrief, lastCompanyName, uid, now, requests>>

\* await response.text() resolves with a non-2xx response: throw, catch, finally
HttpFails(i, b) ==
    /\ i \in 1..Len(calls) /\ calls[i].stage = "text"
    /\ ~Responses[calls[i].response].ok
    /\ Caught(i, [isError |-> TRUE,
                  message |-> HttpErrorMessage(Responses[calls[i].response], Bodies[b])])
    /\ last' = [Did("httpError", calls[i].response, NoNorm) EXCEPT !.body = Bodies[b]]
    /\ UNCHANGED <<activeTab, formData, summaries, debrief, lastCompanyName, uid, now,
                   requests>>

TypeErrorValue == [isError |-> TRUE, message |-> <<"TypeError">>]

\* await response.text() resolves with a 2xx response whose body is rawText:
\* lines 136-278
SettlesWith(i, rawText) ==
    /\ i \in 1..Len(calls) /\ calls[i].stage = "text"
    /\ Responses[calls[i].response].ok
    /\ \E n \in {Normalize(rawText, [payload |-> calls[i].payload, now |-> now],
                           summaries, debrief, uid)} :
          /\ debrief' = n.debrief
          /\ uid' = n.uid
          /\ summaries' = n.summaries
          /\ formData' = IF n.threw THEN formData ELSE EmptyForm
          /\ activeTab' = IF n.threw THEN activeTab ELSE "summaries"
          /\ error' = IF n.threw THEN CatchMessage(TypeErrorValue) ELSE error
          /\ last' = [op |-> "settled", arg |-> 0, body |-> rawText,
                      payload |-> calls[i].payload, pre |-> Snapshot,
                      norm |-> [threw |-> n.threw, extracted |-> n.extracted,
                                newEntries |-> n.newEntries, deduped |-> n.deduped,
                                placeholder |-> n.placeholder]]
    /\ isLoading' = FALSE
    /\ calls' = Remove(calls, i)
    /\ UNCHANGED <<lastCompanyName, now, requests>>

Settles(i, b) == SettlesWith(i, Bodies[b])

\* the Clear All button is rendered on the summaries tab when there is content
ClearAllShown == activeTab = "summaries" /\ (Len(summaries) > 0 \/ Truthy(debrief))

\* Clear All without debrief = null
clearSummariesKeepsDebrief ==
    /\ ClearAllShown
    /\ summaries' = <<>>
    /\ debrief' = debrief
    /\ lastCompanyName' = <<>>
    /\ last' = Did("clear", 0, NoNorm)
    /\ UNCHANGED <<activeTab, formData, isLoading, error, uid, now, calls, requests>>

clearSummaries ==
    /\ ClearAllShown
    /\ summaries' = <<>>
    /\ debrief' = Null
    /\ lastCompanyName' = <<>>
    /\ last' = Did("clear", 0, NoNorm)
    /\ UNCHANGED <<activeTab, formData, isLoading, error, uid, now, calls, requests>>

\* a tab click that dismisses the error banner
SelectTabClearsError(tab) ==
    /\ tab # activeTab
    /\ activeTab' = tab
    /\ error' = <<>>
    /\ last' = Did("tab", 0, NoNorm)
    /\ UNCHANGED <<formData, summaries, debrief, lastCompanyName, isLoading,
                   uid, now, calls, requests>>

\* on:click={() => activeTab = ...}; a click on the active tab changes nothing
SelectTab(tab) ==
    /\ tab # activeTab
    /\ activeTab' = tab
    /\ last' = Did("tab", 0, NoNorm)
    /\ UNCHANGED <<formData, summaries, debrief, lastCompanyName, isLoading, error,
                   uid, now, calls, requests>>

\* Date.now() advances
Tick ==
    /\ now < MaxClock
    /\ now' = now + 1
    /\ UNCHANGED <<activeTab, formData, summaries, debrief, lastCompanyName, isLoading,
                   error, uid, calls, requests, last>>

Next ==
    \/ \E v \in FieldValues : SetCompanyName(v)
    \/ \E v \in FieldValues : SetCompanyWebsite(v)
    \/ submitResearch
    \/ \E i \in 1..MaxSubmits, r \in 1..Len(Rejections) : FetchRejects(i, r)
    \/ \E i \in 1..MaxSubmits, m \in 1..Len(Responses) : FetchResolves(i, m)
    \/ \E i \in 1..MaxSubmits, r \in 1..Len(Rejections) : TextRejects(i, r)
    \/ \E i \in 1..MaxSubmits, b \in HttpErrorBodies : HttpFails(i, b)
    \/ \E i \in 1..MaxSubmits, b \in 1..Len(Bodies) : Settles(i, b)
    \/ clearSummaries
    \/ \E tab \in {"research", "summaries"} : SelectTab(tab)
    \/ Tick

Spec == Init /\ [][Next]_vars

(***************************************************************************)
(* SpecNorm: the normaliser on generated batches.  It starts where a       *)
(* request of Spec has been answered with a 2xx status and its body is     *)
(* about to be read, either in a fresh component or after one submission   *)
(* that left a debrief and two entries.                                    *)
(***************************************************************************)
AcmeForm == [companyName |-> <<"Acme">>, companyWebsite |-> <<"Acme">>]

\* what the submission answered with Bodies[7] leaves in a fresh component
Earlier == Normalize(Bodies[7], [payload |-> AcmeForm, now |-> 0], <<>>, Null, 0)

AwaitingBody(briefed) ==
    /\ activeTab = "research"
    /\ formData = AcmeForm
    /\ summaries = IF briefed THEN Earlier.summaries ELSE <<>>
    /\ debrief = IF briefed THEN Earlier.debrief ELSE Null
    /\ lastCompanyName = <<"Acme">>
    /\ isLoading = TRUE
    /\ error = <<>>
    /\ uid = IF briefed THEN Earlier.uid ELSE 0
    /\ now = 0
    /\ calls = <<[payload |-> AcmeForm, stage |-> "text", response |-> 1]>>
    /\ requests = IF briefed THEN 2 ELSE 1
    /\ last = Did("response", 1, NoNorm)

InitNorm == \E briefed \in BOOLEAN : AwaitingBody(briefed)

NextNorm ==
    \/ \E first \in 0..Len(Firsts), picks \in Picks : SettlesWith(1, Batch(first, picks))
    \/ \E k \in 1..Len(Shapes) : SettlesWith(1, Shapes[k])
    \/ \E b \in 1..Len(Bodies) : Settles(1, b)
    \/ clearSummaries
    \/ \E tab \in {"research", "summaries"} : SelectTab(tab)
    \/ Tick

SpecNorm == InitNorm /\ [][NextNorm]_vars

\* the start states of SpecNorm are states of Spec
FreshStartNotReached == ~(AwaitingBody(FALSE))
BriefedStartNotReached == ~(AwaitingBody(TRUE))

(***************************************************************************)
(* FairSpec: every request that was issued settles.                        *)
(***************************************************************************)
RequestSettles ==
    \/ \E i \in 1..MaxSubmits, r \in 1..Len(Rejections) : FetchRejects(i, r)
    \/ \E i \in 1..MaxSubmits, m \in 1..Len(Responses) : FetchResolves(i, m)
    \/ \E i \in 1..MaxSubmits, r \in 1..Len(Rejections) : TextRejects(i, r)
    \/ \E i \in 1..MaxSubmits, b \in HttpErrorBodies : HttpFails(i, b)
    \/ \E i \in 1..MaxSubmits, b \in 1..Len(Bodies) : Settles(i, b)

FairSpec == Spec /\ WF_vars(RequestSettles)

(***************************************************************************)
(* Properties                                                              *)
(***************************************************************************)
\* every character of txt is white space
OnlyBlanks(txt) == \A k \in 1..Len(txt) : txt[k] \in {" ", "\t", "\n"}

BlankForm(form) == OnlyBlanks(form.companyName) \/ OnlyBlanks(form.companyWebsite)

ValidationError == <<"Company name and website are required">>

\* C1: a submit with a company name or website that is blank after trimming
\* is answered by the validation error alone: it issues no request, leaves
\* isLoading false and leaves entries, debrief, tab and fields as they were;
\* and no request is ever issued from a blank form.
C1_BlankSubmitIsRejected ==
    /\ last.op \in {"invalid", "request"} => (last.op = "invalid" <=> BlankForm(last.pre.formData))
    /\ last.op = "invalid" =>
          /\ error = ValidationError
          /\ requests = last.pre.requests /\ calls = <<>>
          /\ ~isLoading /\ ~last.pre.isLoading
          /\ summaries = last.pre.summaries /\ debrief = last.pre.debrief
          /\ activeTab = last.pre.activeTab /\ formData = last.pre.formData

\* a form whose name is one blank was submitted, with entries on display
C1_Witness ==
    /\ last.op = "invalid"
    /\ formData.companyName = <<" ">> /\ formData.companyWebsite = <<"Acme">>
    /\ Len(summaries) > 0

\* C2: at most one request is in flight in every state, and a request is
\* only ever issued from a state where none is in flight.
C2_OneRequestInFlight ==
    /\ Len(calls) <= 1
    /\ last.op = "request" => ~last.pre.isLoading /\ Len(calls) = 1

\* a second request is in flight after the first one settled
C2_Witness == Len(calls) = 1 /\ requests = 2 /\ calls[1].stage = "text"

\* C3: whenever the busy flag is set it is cleared again, given that the
\* request settles, whichever way it settles.
C3_BusyFlagIsCleared == isLoading ~> ~isLoading

\* reading the body of the second request failed, and the flag is clear
C3_Witness ==
    /\ last.op = "textRejected" /\ last.pre.isLoading /\ ~isLoading
    /\ requests = 2

\* C4: a 2xx response never makes the normaliser raise, whatever the body:
\* the submission ends with no error and on the results tab.
C4_NormalizerNeverRaises ==
    last.op = "settled" =>
        /\ ~last.norm.threw
        /\ error = <<>>
        /\ activeTab = "summaries"
        /\ ~isLoading

\* an array with null, an object of nulls, a number and an encoded string
C4_Witness ==
    /\ last.op = "settled" /\ last.body = Shapes[9]
    /\ error = <<>> /\ activeTab = "summaries"

IsPlaceholder(e) ==
    /\ e.title = <<"No articles found">> /\ e.url = <<"#">>
    /\ e.summary = <<>> /\ e.category = <<"Research">>

NotJsonBody == Bodies[2]
EmptyArrayBody == Bodies[4]
EmptyObjectBody == Bodies[5]

\* C5: a 2xx body that is not JSON, is {} or is [] prepends exactly one
\* placeholder entry and nothing else, and sets no error.
C5_GarbageYieldsPlaceholder ==
    (last.op = "settled" /\ last.body \in {NotJsonBody, EmptyArrayBody, EmptyObjectBody}) =>
        /\ Len(summaries) = Len(last.pre.summaries) + 1
        /\ IsPlaceholder(summaries[1])
        /\ Tail(summaries) = last.pre.summaries
        /\ error = <<>>

\* C6: the placeholder is prepended exactly when the batch of this response
\* has no deduplicated entry and no debrief was extracted from it.
C6_PlaceholderDependsOnBatchOnly ==
    last.op = "settled" =>
        IF Len(last.norm.deduped) = 0 /\ ~last.norm.extracted
        THEN /\ Len(summaries) = Len(last.pre.summaries) + 1
             /\ IsPlaceholder(summaries[1])
             /\ Tail(summaries) = last.pre.summaries
        ELSE summaries = last.norm.deduped \o last.pre.summaries

\* C7: after a successful submission the debrief is the one of this response,
\* and absent when this response had none.
C7_DebriefIsOfLatestSubmission ==
    last.op = "settled" =>
        IF last.norm.extracted THEN debrief.t = "debrief" ELSE debrief = Null

\* the elements of a body that is a JSON array, else none
BodyItems(body) ==
    IF body.parsed.t = "arr" THEN body.parsed.items ELSE <<>>

NonBlankField(obj, k) == HasKey(obj, k) /\ Get(obj, k).t = "str" /\ ~OnlyBlanks(Get(obj, k).txt)

\* {title, summary, url}, all three non-blank strings
WellFormedDirect(obj) ==
    /\ obj.t = "obj"
    /\ NonBlankField(obj, "title") /\ NonBlankField(obj, "summary") /\ NonBlankField(obj, "url")

NormalizedUrl(txt) == ToLowerCase(Trim(txt))

\* an array of N >= 1 well-formed direct-shape objects with distinct urls
DirectArray(body) ==
    /\ Len(BodyItems(body)) >= 1
    /\ \A k \in 1..Len(BodyItems(body)) : WellFormedDirect(BodyItems(body)[k])
    /\ \A j, k \in 1..Len(BodyItems(body)) :
          j # k => NormalizedUrl(Get(BodyItems(body)[j], "url").txt)
                     # NormalizedUrl(Get(BodyItems(body)[k], "url").txt)

\* C8: a body that is an array of N well-formed direct-shape objects with
\* distinct urls adds N entries, the k-th made from the k-th element.
C8_DirectArrayYieldsAllEntries ==
    (last.op = "settled" /\ DirectArray(last.body)) =>
        /\ Len(summaries) = Len(last.pre.summaries) + Len(BodyItems(last.body))
        /\ \A k \in 1..Len(BodyItems(last.body)) :
              /\ k <= Len(summaries)
              /\ summaries[k].title = Get(BodyItems(last.body)[k], "title").txt
              /\ summaries[k].url = Get(BodyItems(last.body)[k], "url").txt

\* the positions of the batch that are the first with their normalised url
FirstSeen(entries) ==
    {i \in 1..Len(entries) :
        \A j \in 1..(i - 1) : NormalizedUrl(entries[j].url) # NormalizedUrl(entries[i].url)}

\* the k-th smallest member of a set of positions
Nth(positions, k) ==
    CHOOSE i \in positions : Cardinality({j \in positions : j <= i}) = k

\* C9: within one batch the entries kept are exactly those that are the
\* first with their trimmed, lower-cased url, in their original order, and
\* they are what is prepended to the list.
C9_DedupKeepsFirstSeen ==
    last.op = "settled" =>
        /\ Len(last.norm.deduped) = Cardinality(FirstSeen(last.norm.newEntries))
        /\ \A k \in 1..Cardinality(FirstSeen(last.norm.newEntries)) :
              /\ k <= Len(last.norm.deduped)
              /\ last.norm.deduped[k]
                    = last.norm.newEntries[Nth(FirstSeen(last.norm.newEntries), k)]
        /\ Len(last.norm.deduped) > 0 =>
              summaries = last.norm.deduped \o last.pre.summaries

\* urls "a", " A " and "b" in one batch: the second is dropped, the third kept
C9_Witness ==
    /\ last.op = "settled"
    /\ Len(last.norm.newEntries) = 3 /\ Len(last.norm.deduped) = 2
    /\ last.norm.newEntries[1].url = <<"a">>
    /\ last.norm.newEntries[2].url = <<" ", "A", " ">>
    /\ last.norm.deduped[1].title = <<"T1">>
    /\ last.norm.deduped[2].title = <<"T3">>

\* the elements the entry extraction sees: all but a consumed first one
CandidateItems(body, extracted) ==
    IF extracted /\ BodyItems(body) # <<>> THEN Tail(BodyItems(body)) ELSE BodyItems(body)

\* the positions of valid candidates that have no url or a blank one
BlankUrlCandidates(items) ==
    {k \in 1..Len(items) :
        /\ items[k].t = "obj"
        /\ NonBlankField(items[k], "summary")
        /\ ~NonBlankField(items[k], "url")}

\* C10: the valid candidates of a batch that have a missing or blank url are
\* all kept, each as an entry of its own.
C10_BlankUrlNeverCollides ==
    last.op = "settled" =>
        Cardinality({n \in 1..Len(last.norm.deduped) : last.norm.deduped[n].url = <<"#">>})
           >= Cardinality(BlankUrlCandidates(CandidateItems(last.body, last.norm.extracted)))

\* {"News": "<the JSON text of [ArticleA]>"}
GroupedEncodedBody == Bodies[9]

\* C11: a body that is one object with the single key News, whose value is
\* the JSON text of an array of one valid object, adds exactly one entry,
\* made from that object, with category News.
C11_GroupedEncodedYieldsOneEntry ==
    (last.op = "settled" /\ last.body = GroupedEncodedBody) =>
        /\ Len(summaries) = Len(last.pre.summaries) + 1
        /\ summaries[1].category = <<"News">>
        /\ summaries[1].title = <<"T1">>
        /\ summaries[1].url = <<"a">>
        /\ Tail(summaries) = last.pre.summaries

\* the first element of a body that is a non-empty array, else undefined
FirstItem(body) == IF Len(BodyItems(body)) >= 1 THEN BodyItems(body)[1] ELSE Undef

\* the first element is an object whose bulletPoints is an array of strings
StartsWithPoints(body) ==
    /\ FirstItem(body).t = "obj"
    /\ HasKey(FirstItem(body), "bulletPoints")
    /\ Get(FirstItem(body), "bulletPoints").t = "arr"
    /\ \A k \in 1..Len(Get(FirstItem(body), "bulletPoints").items) :
          Get(FirstItem(body), "bulletPoints").items[k].t = "str"

GivenPoints(body) == Get(FirstItem(body), "bulletPoints").items

DropLeading(txt, marker) ==
    IF StartsWith(txt, marker) THEN SubSeq(txt, Len(marker) + 1, Len(txt)) ELSE txt

DropTrailing(txt, marker) ==
    IF EndsWith(txt, marker) THEN SubSeq(txt, 1, Len(txt) - Len(marker)) ELSE txt

\* a bullet as it is to be shown: trimmed, without its leading "- " and
\* without the ** before and after it
ShownPoint(txt) ==
    Trim(DropTrailing(DropLeading(Trim(DropLeading(Trim(txt), <<"-", " ">>)),
                                  <<"*", "*">>),
                      <<"*", "*">>))

C12_ArticleWitness ==
    /\ last.op = "settled" /\ FirstItem(last.body) = DebriefArticle
    /\ debrief.bulletPoints = <<<<"Point", " ", "three">>, <<"Point", " ", "four">>>>
    /\ Len(last.norm.newEntries) = 0

\* [{fullBody: "Intro text.\n- **Risk A**\n- Risk B", bulletPoints: []}, ArticleA]
BodyWithEmptyPoints == Shapes[11]

\* C13: a first element whose fullBody has a paragraph line and two bullet
\* lines and whose bulletPoints is an empty array, followed by a valid
\* direct-shape object, gives a debrief whose executiveSummary is the
\* paragraph and whose bullets are the bullet lines of fullBody, normalised
\* and in order, and adds exactly one entry, made from the second element.
C13_EmptyPointsFallBackToFullBody ==
    (last.op = "settled" /\ last.body = BodyWithEmptyPoints) =>
        /\ debrief.t = "debrief"
        /\ debrief.executiveSummary = Text(<<"Intro", " ", "text.">>)
        /\ debrief.bulletPoints = <<<<"Risk", " ", "A">>, <<"Risk", " ", "B">>>>
        /\ Len(summaries) = Len(last.pre.summaries) + 1
        /\ summaries[1].title = <<"T1">>
        /\ Tail(summaries) = last.pre.summaries

\* C14: whatever the entry list and the debrief held, Clear All leaves the
\* entry list empty and the debrief absent.
C14_ClearAllEmptiesBoth ==
    last.op = "clear" => summaries = <<>> /\ debrief = Null

\* Clear All was pressed with entries and a debrief on display, while a
\* second request was in flight
C14_Witness ==
    /\ last.op = "clear"
    /\ Len(last.pre.summaries) > 0 /\ last.pre.debrief.t = "debrief"
    /\ isLoading
    /\ summaries = <<>> /\ debrief = Null

\* 'HTTP <status> <statusText>', then ' - <body>' when the body is not empty
HttpBanner(response, rawText) ==
    <<"HTTP", " ", response.status, " ">> \o response.statusText
       \o (IF rawText.txt = <<>> THEN <<>> ELSE <<" ", "-", " ">> \o rawText.txt)

\* C15: after a non-2xx response the error shown is 'HTTP <status>
\* <statusText>', followed by ' - <body>' when the body is not empty,
\* whatever the status, the status text and the body are.
C15_HttpErrorShowsStatusAndBody ==
    last.op = "httpError" => error = HttpBanner(Responses[last.arg], last.body)

CorsHint == <<"Failed to fetch (likely CORS). See note below.">>

MentionsFailedToFetch(txt) == \E k \in 1..Len(txt) : txt[k] = "Failed to fetch"

\* C16: when fetch rejects with an Error whose message contains 'Failed to
\* fetch' the error shown is the fixed CORS hint; with any other Error it is
\* that error's message, unchanged; with a value that is not an Error it is
\* 'Failed to submit research request'.
C16_FetchRejectionMessage ==
    last.op = "fetchRejected" =>
        error = IF ~Rejections[last.arg].isError
                THEN <<"Failed to submit research request">>
                ELSE IF MentionsFailedToFetch(Rejections[last.arg].message)
                     THEN CorsHint
                     ELSE Rejections[last.arg].message

\* fetch rejected with TypeError: Failed to fetch, and the hint is shown
C16_Witness ==
    /\ last.op = "fetchRejected"
    /\ MentionsFailedToFetch(Rejections[last.arg].message)
    /\ error = CorsHint /\ ~isLoading

\* fetch rejected with another Error, whose message is shown
C16_OtherErrorWitness ==
    /\ last.op = "fetchRejected" /\ error = <<"Load failed">>

\* fetch rejected with a value that is not an Error
C16_NonErrorWitness ==
    /\ last.op = "fetchRejected" /\ error = <<"Failed to submit research request">>

\* this step is a submit that passed validation
ValidSubmitStep == last' # last /\ last'.op = "request"

\* this step ends a request: a rejection, a non-2xx or a 2xx response
SettlementStep ==
    last' # last /\ last'.op \in {"fetchRejected", "textRejected", "httpError", "settled"}

\* C17: a submit that passes validation issues exactly one request, with the
\* form as its payload; the step that ends a request, failed or not, issues
\* none and leaves none in flight for it; and no other step issues one. So
\* the requests issued are as many as the submits that passed validation.
C17_OneRequestPerValidSubmit ==
    [][IF ValidSubmitStep
       THEN /\ requests' = requests + 1
            /\ calls' = Append(calls, [payload |-> formData, stage |-> "fetch",
                                       response |-> 0])
       ELSE /\ requests' = requests
            /\ Len(calls') = IF SettlementStep THEN Len(calls) - 1 ELSE Len(calls)
            /\ \A i \in 1..Len(calls') :
                  calls'[i].stage = "fetch" => (i <= Len(calls) /\ calls[i] = calls'[i])]_vars

\* two submits passed validation, two requests were issued, the second
\* failed with a non-2xx status and nothing is in flight
C17_Witness ==
    /\ last.op = "httpError" /\ last.pre.requests = 2
    /\ requests = 2 /\ calls = <<>> /\ ~isLoading

\* this step is the 2xx settlement of a request
SuccessStep == last' # last /\ last'.op = "settled"

\* this step is a Clear All
ClearStep == last' # last /\ last'.op = "clear"

\* C18: a successful submission puts the deduplicated entries of its batch,
\* or one placeholder, in front of the previous list, which stays as it was
\* in content and order; Clear All empties the list; every other step leaves
\* the list as it is.
C18_ListGrowsAtFrontOnly ==
    [][IF SuccessStep
       THEN \/ summaries' = last'.norm.deduped \o summaries
            \/ /\ Len(last'.norm.deduped) = 0
               /\ Len(summaries') = Len(summaries) + 1
               /\ IsPlaceholder(summaries'[1])
               /\ Tail(summaries') = summaries
       ELSE IF ClearStep THEN summaries' = <<>>
       ELSE summaries' = summaries]_vars

\* a second submission put two entries in front of the two of the first
C18_Witness ==
    /\ last.op = "settled"
    /\ Len(last.pre.summaries) = 2 /\ Len(last.norm.deduped) = 2
    /\ summaries = last.norm.deduped \o last.pre.summaries

\* a second submission put a placeholder in front of an entry
C18_PlaceholderWitness ==
    /\ last.op = "settled" /\ last.norm.placeholder
    /\ Len(last.pre.summaries) > 0
    /\ IsPlaceholder(summaries[1]) /\ Tail(summaries) = last.pre.summaries

\* the ids issued by the settlement this step is: one for each entry pushed,
\* kept by the deduplication or not, and one for a placeholder
IdsIssued ==
    IF SuccessStep
    THEN Len(last'.norm.newEntries) + (IF last'.norm.placeholder THEN 1 ELSE 0)
    ELSE 0

\* C19: the ids of the entries of the list, placeholders included, are
\* pairwise distinct in every state; and the id counter grows by one with
\* every id issued and is changed by nothing else, Clear All included.
C19_IdsAreDistinct ==
    /\ [](\A i, j \in 1..Len(summaries) : i # j => summaries[i].id # summaries[j].id)
    /\ [][uid' = uid + IdsIssued]_vars

\* after a Clear All, two entries of the same category made in the same
\* millisecond as the entries that were cleared
C19_Witness ==
    /\ last.op = "settled"
    /\ last.pre.summaries = <<>> /\ last.pre.uid > 0
    /\ Len(summaries) = 2 /\ now = 0
    /\ summaries[1].category = summaries[2].category
    /\ summaries[1].id[1] = summaries[2].id[1]
    /\ summaries[1].id # summaries[2].id

\* a placeholder and an entry in one list
C19_PlaceholderWitness ==
    /\ Len(summaries) = 2
    /\ IsPlaceholder(summaries[1]) /\ ~IsPlaceholder(summaries[2])
    /\ summaries[1].id[1] = summaries[2].id[1]

\* a candidate with a non-blank title, summary or url
PermissivelyValid(obj) ==
    /\ obj.t = "obj"
    /\ NonBlankField(obj, "title") \/ NonBlankField(obj, "summary") \/ NonBlankField(obj, "url")

\* the positions of the candidates the permissive rule keeps
PermissiveCandidates(items) == {k \in 1..Len(items) : PermissivelyValid(items[k])}

\* C20: every candidate with a non-blank title, a non-blank summary or a
\* non-blank url becomes an entry, one with a title or url and a blank
\* summary included.
C20_PermissiveRuleKeepsCandidate ==
    last.op = "settled" =>
        Len(last.norm.newEntries)
           >= Cardinality(PermissiveCandidates(CandidateItems(last.body, last.norm.extracted)))

\* C21: between the issue of a request and its settlement no step changes
\* the entry list, the debrief or the active tab.
C21_InFlightStateIsUntouched ==
    [][(isLoading /\ isLoading') => UNCHANGED <<summaries, debrief, activeTab>>]_vars

\* the first element of the working list after un-escaping, undefined when
\* the list is empty
LeadElement(body) ==
    IF baseList(ParseBody(body)) = <<>> THEN Undef ELSE peel(baseList(ParseBody(body))[1])

\* a plain object with fullBody, bulletPoints, supporting_points or title
HasDebriefMarker(v) ==
    /\ v.t = "obj"
    /\ \/ HasKey(v, "fullBody") \/ HasKey(v, "bulletPoints")
       \/ HasKey(v, "supporting_points") \/ HasKey(v, "title")

\* C22: the first element is taken as the debrief only when, un-escaped, it
\* is a plain object with a debrief marker (fullBody, bulletPoints,
\* supporting_points or title); and when no element is taken, the debrief is
\* not assigned from any other element.
C22_DebriefNeedsMarker ==
    last.op = "settled" =>
        /\ last.norm.extracted => HasDebriefMarker(LeadElement(last.body))
        /\ ~last.norm.extracted => debrief = last.pre.debrief

\* [null, "<JSON of ArticleA>", "<JSON of the JSON of {News: [ArticleB]}>"]
EncodedElementsBody == Shapes[13]

\* the body with each element of its array un-escaped
WithElementsUnescaped(body) ==
    Enc(body.txt, Arr([k \in 1..Len(BodyItems(body)) |-> peel(BodyItems(body)[k])]))

\* the entries without their ids
ContentsOf(entries) == [k \in 1..Len(entries) |-> [entries[k] EXCEPT !.id = <<>>]]

\* the entries the normaliser makes of body for the payload of this
\* submission, without their ids
EntriesOf(body) ==
    ContentsOf(Normalize(body, [payload |-> last.payload, now |-> 0],
                         last.pre.summaries, last.pre.debrief, last.pre.uid).newEntries)

\* C23: a body that is an array yields the entries that the same array with
\* every element un-escaped yields: an element that is the JSON text, once
\* or twice encoded, of an object counts as that object.
C23_ElementsAreUnescaped ==
    (last.op = "settled" /\ last.body.parsed.t = "arr") =>
        ContentsOf(last.norm.newEntries) = EntriesOf(WithElementsUnescaped(last.body))

\* the string field k of obj, '' when it has none
GivenText(obj, k) ==
    IF HasKey(obj, k) /\ Get(obj, k).t = "str" THEN Get(obj, k).txt ELSE <<>>

\* a line that is not empty, not a heading and not a bullet line
IsPlainLine(l) ==
    /\ Trim(l) # <<>>
    /\ ~StartsWith(Trim(l), <<"#">>)
    /\ ~StartsWith(Trim(l), <<"-", " ">>)
    /\ ~StartsWith(Trim(l), <<"BULLET", " ">>)

\* the plain lines of txt, trimmed
PlainLines(txt) == TrimLines(SelectSeq(Split(txt, "\n"), IsPlainLine))

FirstThree(points) == SubSeq(points, 1, IF Len(points) < 3 THEN Len(points) ELSE 3)

\* the summary of a debrief made from first, whose bullets are points
SummaryByPriority(first, points) ==
    IF ~OnlyBlanks(GivenText(first, "executive_summary"))
    THEN Text(Trim(GivenText(first, "executive_summary")))
    ELSE IF PlainLines(GivenText(first, "fullBody")) # <<>>
         THEN Text(Join(PlainLines(GivenText(first, "fullBody")), <<" ">>))
         ELSE IF points # <<>> THEN Text(Join(FirstThree(points), <<" ">>))
              ELSE Undef

\* C24: the executiveSummary of an extracted debrief is the trimmed
\* executive_summary when that is a non-blank string; else the non-empty
\* lines of fullBody that are neither headings nor bullet lines, joined by
\* spaces; else the first three bullets of the debrief, joined; else absent.
C24_SummaryByPriority ==
    (last.op = "settled" /\ last.norm.extracted) =>
        debrief.executiveSummary
           = SummaryByPriority(LeadElement(last.body), debrief.bulletPoints)

\* a blank executive_summary: the two paragraph lines of fullBody are joined
C24_Witness ==
    /\ last.op = "settled" /\ LeadElement(last.body) = DebriefParagraphs
    /\ debrief.executiveSummary
          = Text(<<"Intro", " ", "text.", " ", "More", " ", "text.">>)
    /\ Len(debrief.bulletPoints) = 2

\* executive_summary wins over fullBody and bulletPoints
C24_ExplicitWitness ==
    /\ last.op = "settled" /\ LeadElement(last.body) = DebriefExplicit
    /\ debrief.executiveSummary = Text(<<"Exec", " ", "sum">>)

\* no paragraph: the first three of four bullets
C24_BulletsWitness ==
    /\ last.op = "settled" /\ LeadElement(last.body) = DebriefBulletsOnly
    /\ debrief.executiveSummary = Text(<<"B1", " ", "B2", " ", "B3">>)
    /\ Len(debrief.bulletPoints) = 4

\* nothing to derive a summary from
C24_AbsentWitness ==
    /\ last.op = "settled" /\ last.norm.extracted
    /\ debrief.executiveSummary = Undef

\* the category of an entry made from cand under the category key `key`
\* ('' for none): the own category when it is a string, else the key, else
\* 'Research'; and 'Research' in place of the empty string
CategoryFor(cand, key) ==
    IF HasKey(cand, "category") /\ Get(cand, "category").t = "str"
          /\ Get(cand, "category").txt # <<>>
    THEN Get(cand, "category").txt
    ELSE IF HasKey(cand, "category") /\ Get(cand, "category").t = "str" THEN <<"Research">>
    ELSE IF key # <<>> THEN key ELSE <<"Research">>

\* entry e has the fields that candidate cand under key gives it
EntryIsOf(e, cand, key) ==
    /\ e.title = IF NonBlankField(cand, "title") THEN Get(cand, "title").txt
                 ELSE <<"Untitled">>
    /\ e.url = IF NonBlankField(cand, "url") THEN Get(cand, "url").txt ELSE <<"#">>
    /\ e.summary = Get(cand, "summary").txt
    /\ e.category = CategoryFor(cand, key)
    /\ e.category # <<>>
    /\ e.postedDate = IF NonBlankField(cand, "postedDate")
                      THEN Text(Get(cand, "postedDate").txt) ELSE Undef

IsDirectOrNull(item) == item.t = "null" \/ (item.t = "obj" /\ hasDirectShape(item))

HasSummary(item) == item.t = "obj" /\ NonBlankField(item, "summary")

\* the candidates of the body that pass the rule of pushIfValid, when every
\* element after a consumed first one is null or a direct-shape object
DirectCandidates(body, extracted) == SelectSeq(CandidateItems(body, extracted), HasSummary)

AllDirectOrNull(items) == \A k \in 1..Len(items) : IsDirectOrNull(items[k])

GroupedBody == Shapes[17]

\* C25: every entry has the title of its candidate, or 'Untitled' when that
\* is blank; its url, or '#' when that is blank; its own category when that
\* is a string, else the enclosing key, else 'Research', with 'Research' in
\* place of an empty string, so that it is never empty; and its postedDate
\* only when that is a non-blank string.
C25_EntryFieldsAndDefaults ==
    /\ (last.op = "settled" /\ AllDirectOrNull(CandidateItems(last.body, last.norm.extracted))) =>
          /\ Len(last.norm.newEntries)
                = Len(DirectCandidates(last.body, last.norm.extracted))
          /\ \A k \in 1..Len(last.norm.newEntries) :
                EntryIsOf(last.norm.newEntries[k],
                          DirectCandidates(last.body, last.norm.extracted)[k], <<>>)
    /\ (last.op = "settled" /\ last.body = GroupedBody) =>
          /\ Len(last.norm.newEntries) = 4
          /\ EntryIsOf(last.norm.newEntries[1], TaggedDated, <<"News">>)
          /\ EntryIsOf(last.norm.newEntries[2], UntitledUntagged, <<"News">>)
          /\ EntryIsOf(last.norm.newEntries[3], NumberDated, <<"News">>)
          /\ EntryIsOf(last.norm.newEntries[4], UnderEmptyKey, <<>>)

\* the grouped object: own category Tech, 'Research' for the empty own
\* category, the key News, 'Research' under the empty key
C25_Witness ==
    /\ last.op = "settled" /\ last.body = GroupedBody
    /\ Len(summaries) >= 4
    /\ summaries[1].category = <<"Tech">> /\ summaries[1].title = <<"Untitled">>
    /\ summaries[1].postedDate = Text(<<"2024-01-01">>)
    /\ summaries[2].category = <<"Research">> /\ summaries[2].postedDate = Undef
    /\ summaries[3].category = <<"News">> /\ summaries[3].url = <<"#">>
    /\ summaries[4].category = <<"Research">>

\* a direct candidate with a blank url in a generated batch
C25_DirectWitness ==
    /\ last.op = "settled" /\ Len(last.norm.newEntries) = 2
    /\ last.norm.newEntries[1].url = <<"#">> /\ last.norm.newEntries[1].title = <<"T4">>
    /\ last.norm.newEntries[2].title = <<"T1">>

\* a candidate with the category key it was found under
Tagged(cand, key) == [cand |-> cand, key |-> key]

PairIsObject(p) == p.cand.t = "obj"

PairHasSummary(p) == HasSummary(p.cand)

\* the candidates of one category value v, already un-escaped: the object
\* elements of an array, each un-escaped; a single object; else none
ValueCandidates(v, key) ==
    IF v.t = "arr"
    THEN SelectSeq([k \in 1..Len(v.items) |-> Tagged(peel(v.items[k]), key)], PairIsObject)
    ELSE IF v.t = "obj" THEN <<Tagged(v, key)>> ELSE <<>>

RECURSIVE KeyCandidates(_, _)
\* the candidates of the keys of rec from the k-th on, in key order
KeyCandidates(rec, k) ==
    IF k > Len(rec.keys) THEN <<>>
    ELSE ValueCandidates(peel(rec.vals[k]), KeyText(rec.keys[k])) \o KeyCandidates(rec, k + 1)

IsGrouped(item) == item.t = "obj" /\ ~hasDirectShape(item)

RECURSIVE ListCandidates(_)
\* the candidates of the grouped elements of a list, in list order
ListCandidates(items) ==
    IF items = <<>> THEN <<>>
    ELSE (IF IsGrouped(Head(items)) THEN KeyCandidates(Head(items), 1) ELSE <<>>)
            \o ListCandidates(Tail(items))

\* the candidates of a list that become entries
GroupedEntries(items) == SelectSeq(ListCandidates(items), PairHasSummary)

OnlyGroupedOrNull(items) ==
    /\ items # <<>>
    /\ \A k \in 1..Len(items) : items[k].t = "null" \/ IsGrouped(items[k])

\* [null, {summary, News: [ArticleA]}]
DirectWithGroupBody == Shapes[18]

\* C26: a list element that is an object without direct-shape keys is
\* expanded by its keys, in key order then array order: the object elements
\* of a value that un-escapes to an array, each un-escaped, and a value that
\* un-escapes to an object are candidates under that key; other values give
\* none.  An element with a direct-shape key is not expanded.
C26_GroupedElementsAreExpanded ==
    /\ (last.op = "settled" /\ OnlyGroupedOrNull(baseList(ParseBody(last.body)))) =>
          /\ Len(last.norm.newEntries)
                = Len(GroupedEntries(baseList(ParseBody(last.body))))
          /\ \A k \in 1..Len(last.norm.newEntries) :
                EntryIsOf(last.norm.newEntries[k],
                          GroupedEntries(baseList(ParseBody(last.body)))[k].cand,
                          GroupedEntries(baseList(ParseBody(last.body)))[k].key)
    /\ (last.op = "settled" /\ last.body = DirectWithGroupBody) =>
          /\ Len(last.norm.newEntries) = 1
          /\ last.norm.newEntries[1].summary = <<"S12">>

\* the number of entries of a list with the normalised url u
CountWithUrl(entries, u) ==
    Cardinality({k \in 1..Len(entries) : NormalizedUrl(entries[k].url) = u})

\* the normalised urls of a list of entries
UrlsOf(entries) == {NormalizedUrl(entries[k].url) : k \in 1..Len(entries)}

\* C27: a url of the new batch is added to the list once, whether or not
\* entries accumulated from earlier submissions have that url already.
C27_NoDedupAcrossSubmissions ==
    last.op = "settled" =>
        \A u \in UrlsOf(last.norm.newEntries) :
            CountWithUrl(summaries, u) = CountWithUrl(last.pre.summaries, u) + 1

\* two submissions were answered with the same body, which has one valid
\* entry: the list holds two entries with its url
C27_Witness ==
    /\ last.op = "settled" /\ last.body = Bodies[8]
    /\ Len(last.pre.summaries) = 1 /\ Len(summaries) = 2
    /\ summaries[1].url = <<"a">> /\ summaries[2].url = <<"a">>
    /\ summaries[1].title = summaries[2].title

\* C28: right after a 2xx submission the results tab is shown, both fields
\* are empty, there is no error and the busy flag is clear; and a submit
\* that passes validation clears the error an earlier submission left.
C28_SuccessResetsFormAndError ==
    /\ last.op = "settled" =>
          /\ activeTab = "summaries"
          /\ formData.companyName = <<>> /\ formData.companyWebsite = <<>>
          /\ error = <<>>
          /\ ~isLoading
    /\ last.op = "request" => error = <<>>

\* a submission with both fields filled succeeded while the research tab
\* was shown
C28_Witness ==
    /\ last.op = "settled"
    /\ last.pre.activeTab = "research" /\ last.pre.formData.companyName = <<"Acme">>
    /\ last.pre.isLoading
    /\ activeTab = "summaries" /\ formData = EmptyForm /\ error = <<>>

\* a submit passed validation while the error of a failed one was shown
C28_ErrorClearedWitness ==
    /\ last.op = "request" /\ last.pre.error # <<>> /\ error = <<>>

\* this step ends a request with an error: a rejection or a non-2xx status
FailureStep ==
    last' # last /\ last'.op \in {"fetchRejected", "textRejected", "httpError"}

\* C29: the step that ends a submission with a network error or an HTTP
\* error sets error and clears isLoading, and leaves the entry list, the
\* debrief, the active tab and the form fields as they are; and the fields
\* are then still those that were submitted.
C29_FailureLeavesStateAlone ==
    [][FailureStep =>
          /\ UNCHANGED <<summaries, debrief, activeTab, formData, uid>>
          /\ error' # <<>> /\ ~isLoading'
          /\ \E i \in 1..Len(calls) :
                calls' = Remove(calls, i) /\ calls[i].payload = formData]_vars

\* a second submission failed with an HTTP error, with entries and a debrief
\* of the first on display
C29_Witness ==
    /\ last.op = "httpError"
    /\ Len(summaries) > 0 /\ debrief.t = "debrief"
    /\ summaries = last.pre.summaries /\ debrief = last.pre.debrief
    /\ formData = last.pre.formData /\ formData.companyName = <<"Acme">>
    /\ activeTab = last.pre.activeTab
    /\ error # <<>> /\ ~isLoading

\* this step is a click on the other tab
TabStep == last' # last /\ last'.op = "tab"

\* C30: isLoading is true exactly when a request has been issued and has not
\* settled yet; and neither Clear All nor a tab click changes isLoading,
\* error or the form fields.
C30_BusyExactlyWhileInFlight ==
    /\ [](isLoading <=> calls # <<>>)
    /\ [][(ClearStep \/ TabStep) => UNCHANGED <<isLoading, error, formData>>]_vars

\* Clear All was pressed while a request was in flight: the busy flag and
\* the submitted fields are as before
C30_Witness ==
    /\ last.op = "clear"
    /\ isLoading /\ calls # <<>> /\ last.pre.isLoading
    /\ formData = last.pre.formData /\ formData.companyName = <<"Acme">>

\* a tab was clicked while the error of a failed submission was shown
C30_TabWitness ==
    /\ last.op = "tab" /\ ~isLoading /\ calls = <<>>
    /\ error # <<>> /\ error = last.pre.error

====
